---- MODULE Spec2Model ----
(***************************************************************************)
(* Model of the validity-range and hierarchy validators of mora            *)
(* (src/mora/validator.py) and of the request handlers that write to the   *)
(* store.                                                                  *)
(*                                                                         *)
(* Spec      - one call of is_date_range_in_org_unit_range or              *)
(*             is_date_range_in_employee_range, i.e. of                    *)
(*             _is_date_range_valid against the effects the LoRa scope     *)
(*             returns for the parent.                                     *)
(* SpecMove  - one call of is_candidate_parent_valid against a store of    *)
(*             organisational units, the upward walk taken one             *)
(*             is_node_valid call at a time.                               *)
(* SpecBatch - generate_requests followed by submit_requests on one batch   *)
(*             (service/handlers.py).                                      *)
(* SpecEdit  - one association edit: prepare_edit, then submit             *)
(*             (service/association.py).                                   *)
(* SpecIT    - one ITSystems.create or ITSystems.edit                      *)
(*             (service/itsystem.py).                                      *)
(* SpecEmployee - one move_employee request, one engagement at a time      *)
(*             (mora/api.py).                                              *)
(* SpecProject - a stored timeline projected on a window, and the result   *)
(*             projected again.                                            *)
(* SpecPair  - the org-unit and the employee range validation of one       *)
(*             association create (service/association.py).                *)
(* SpecAmqp  - register and publish_message                                *)
(*             (triggers/internal/amqp_trigger.py).                        *)
(* SpecEndpoint - one call of _get_org_unit_endpoint_date.                 *)
(* SpecInactivate - is_inactivation_date_valid and inactivate_org_unit     *)
(*             (mora/api.py).                                              *)
(* SpecSubmit - OrgFunkRequestHandler.submit, the write and then the       *)
(*             messages.                                                   *)
(* SpecRegistry - class definitions filling the handler registries.        *)
(* SpecCreate - one create_employee request, one request of the batch at   *)
(*             a time (service/employee.py).                               *)
(* SpecConfig - concurrent set_configuration calls and get_configuration   *)
(*             (service/configuration_options.py).                         *)
(***************************************************************************)
EXTENDS Integers, Sequences, FiniteSets, TLC

(* ------------------------------------------------------------------ *)
(* Time.  Timestamps are totally ordered; the five points are the       *)
(* boundaries that occur in tests/validation/test_validator.py.         *)
(* ------------------------------------------------------------------ *)
NegInf ==
    0
D20170101 ==
    1
D20170829 ==
    2
\* A day after 2017-08-29 and before infinity (2017-09-01).
D20170901 ==
    D20170829 + 1
PosInf ==
    4

Time ==
    NegInf..PosInf

\* Python's None as the value of previous_end (validator.py:32).
None ==
    -1

\* Largest number of requests in one batch.
MaxBatch ==
    3

\* Largest number of effects one get_effects reply holds.
MaxEffects ==
    2

\* Number of organisational units in the store.
NumUnits ==
    3

Units ==
    1..NumUnits

\* The organisation every unit belongs to (relationer.tilhoerer[0].uuid).
Org ==
    0

\* Depth at which the interpreter stops a recursion with RecursionError.
\* An upward walk in a store without a cycle visits each unit at most
\* once, so it never gets this deep.
RecursionLimit ==
    NumUnits + 2

Gyldighed ==
    {"Aktiv", "Inaktiv"}

\* The 'gyldighed' lists an effect can carry under its gyldighed_key.
GyldighedLists ==
    {<<>>} \cup {<<g>> : g \in Gyldighed}
           \cup {<<"Aktiv", "Inaktiv">>}

\* One (start, end, effect) triple of a get_effects reply; vs is
\* effect['tilstande'][gyldighed_key].
Effects ==
    {e \in [start : Time, end : Time, vs : GyldighedLists] : e.start < e.end}

\* Every reply lora_scope.get_effects can give: any finite sequence of
\* triples, in any order, overlapping or not.
Replies ==
    UNION {[1..n -> Effects] : n \in 0..MaxEffects}

VARIABLES
    pc,          \* "idle" | "walk" | "done"
    caller,      \* which validator ran
    startdate,   \* candidate start date
    enddate,     \* candidate end date
    effects,     \* what the scope holds for the parent in the window
    queries,     \* number of get_effects calls issued
    result,      \* return value of _is_date_range_valid
    raised,      \* error code raised by the validator, or "none"
    overordnet,  \* store: unit -> uuid of relationer.overordnet[0]
    gyldighed,   \* store: unit -> organisationenhedgyldighed[0].gyldighed
    old_unitid,  \* the unit being moved
    new_unitid,  \* the candidate parent
    node_uuid,   \* argument of the is_node_valid call in progress
    depth,       \* number of is_node_valid frames on the stack
    reads,       \* units fetched from the store so far, in order
    batch,        \* the requests handed to generate_requests
    request_type, \* RequestType of the batch
    idx,          \* position in the batch of the list comprehension
    handlers,     \* the RequestHandler objects constructed so far
    log,          \* writes issued to the store so far, in order
    stored,       \* store: the registration an edit is about
    req_original, \* request: 'original', <<>> when absent
    req_data,     \* request: 'data', the new validity and value
    payload       \* the payload a handler prepared

rangeVars ==
    <<startdate, enddate, effects, queries, result>>

moveVars ==
    <<overordnet, gyldighed, old_unitid, new_unitid, node_uuid, depth, reads>>

batchVars ==
    <<batch, request_type, idx, handlers, log>>

editVars ==
    <<stored, req_original, req_data, payload>>

vars ==
    <<pc, caller, raised, rangeVars, moveVars, batchVars, editVars>>

(* ------------------------------------------------------------------ *)
(* _is_date_range_valid                                                 *)
(* ------------------------------------------------------------------ *)

\* Mutant: the guard written with > lets the zero-length range through.
EmptyRange_Strict(sd, ed) ==
    sd > ed

\* validator.py:29  if startdate >= enddate: return False
EmptyRange(sd, ed) ==
    sd >= ed

\* Mutant: the elif branch (start != previous_end) is missing.
StartOk_NoGapCheck(previous_end, sd, start) ==
    IF previous_end = None
    THEN ~(sd < start)
    ELSE TRUE

\* Mutant: the initial case (startdate < start) is missing.
StartOk_NoLeftCheck(previous_end, sd, start) ==
    IF previous_end = None
    THEN TRUE
    ELSE ~(start # previous_end)

\* Mutant: the initial case written with <= rejects an effect that starts
\* exactly at the candidate start.
StartOk_StrictLeft(previous_end, sd, start) ==
    IF previous_end = None
    THEN ~(sd <= start)
    ELSE ~(start # previous_end)

\* validator.py:42-49: TRUE when the loop goes on to the state check.
StartOk(previous_end, sd, start) ==
    IF previous_end = None
    THEN ~(sd < start)
    ELSE ~(start # previous_end)

\* Mutant: the "not vs" test is missing, an empty list counts as active.
IsActive_EmptyOk(vs) ==
    ~(\E i \in 1..Len(vs) : vs[i] # "Aktiv")

\* Mutant: the state of the effect is not looked at.
IsActive_Always(vs) ==
    TRUE

\* validator.py:53: the negation of
\*   not vs or any(v['gyldighed'] != 'Aktiv' for v in vs)
IsActive(vs) ==
    ~(vs = <<>> \/ \E i \in 1..Len(vs) : vs[i] # "Aktiv")

\* Mutant: only "previous_end is not None" is returned.
Covered_NotNone(previous_end, ed) ==
    previous_end # None

\* Mutant: the final comparison written with >.
Covered_Strict(previous_end, ed) ==
    previous_end # None /\ previous_end > ed

\* Mutant: a loop that never ran counts as covering the range.
Covered_NoneOk(previous_end, ed) ==
    previous_end = None \/ previous_end >= ed

\* validator.py:60
Covered(previous_end, ed) ==
    previous_end # None /\ previous_end >= ed

\* validator.py:32-60: the for loop from its i-th iteration on, and the
\* final return.
RECURSIVE Walk(_, _, _, _, _)
Walk(reply, i, previous_end, sd, ed) ==
    IF i > Len(reply)
    THEN Covered(previous_end, ed)
    ELSE IF ~StartOk(previous_end, sd, reply[i].start) THEN FALSE
    ELSE IF ~IsActive(reply[i].vs) THEN FALSE
    ELSE Walk(reply, i + 1, reply[i].end, sd, ed)

\* validator.py:14-60
IsDateRangeValid(reply, sd, ed) ==
    IF EmptyRange(sd, ed) THEN FALSE ELSE Walk(reply, 1, None, sd, ed)

\* Number of get_effects calls _is_date_range_valid makes.
GetEffectsCalls(sd, ed) ==
    IF EmptyRange(sd, ed) THEN 0 ELSE 1

\* No request has been served yet.
Idle ==
    /\ pc = "idle"
    /\ caller = "none"
    /\ raised = "none"
    /\ startdate = NegInf
    /\ enddate = NegInf
    /\ effects = <<>>
    /\ queries = 0
    /\ result = FALSE
    /\ old_unitid = Org
    /\ new_unitid = Org
    /\ node_uuid = Org
    /\ depth = 0
    /\ reads = <<>>
    /\ idx = 0
    /\ handlers = <<>>
    /\ log = <<>>
    /\ req_original = <<>>
    /\ req_data = <<>>
    /\ payload = <<>>

\* The unit hierarchy of a run that never reads it.
NoHierarchy ==
    /\ overordnet = [u \in Units |-> Org]
    /\ gyldighed = [u \in Units |-> "Aktiv"]

\* The batch of a run that handles none.
NoBatch ==
    /\ batch = <<>>
    /\ request_type = "CREATE"

\* The registration of a run that edits none.
NoStored ==
    stored = <<>>

\* The range validators never read the unit hierarchy.
Init ==
    /\ Idle
    /\ NoHierarchy
    /\ NoBatch
    /\ NoStored

\* Body shared by the two validators (validator.py:63-77 and 80-94).
Validate(who, code) ==
    /\ pc = "idle"
    /\ \E sd \in Time, ed \in Time, reply \in Replies :
          /\ startdate' = sd
          /\ enddate' = ed
          /\ effects' = reply
          /\ queries' = GetEffectsCalls(sd, ed)
          /\ result' = IsDateRangeValid(reply, sd, ed)
          /\ raised' = IF IsDateRangeValid(reply, sd, ed) THEN "none" ELSE code
    /\ caller' = who
    /\ pc' = "done"
    /\ UNCHANGED <<moveVars, batchVars, editVars>>

is_date_range_in_org_unit_range ==
    Validate("org_unit", "V_DATE_OUTSIDE_ORG_UNIT_RANGE")

is_date_range_in_employee_range ==
    Validate("employee", "V_DATE_OUTSIDE_EMPL_RANGE")

Next ==
    \/ is_date_range_in_org_unit_range
    \/ is_date_range_in_employee_range

Spec ==
    Init /\ [][Next]_vars

(* ------------------------------------------------------------------ *)
(* is_candidate_parent_valid                                            *)
(* ------------------------------------------------------------------ *)

\* relationer.tilhoerer[0].uuid of a unit: the one organisation.
Tilhoerer(u) ==
    Org

\* Mutant: the comparison with the organisation never succeeds.
IsRootUnit_Never(u) ==
    FALSE

\* validator.py:115-116 and 136: the unit's parent is its organisation.
IsRootUnit(u) ==
    overordnet[u] = Tilhoerer(u)

\* Mutant: is_node_valid does not compare the node with the moved unit.
IsMovedUnit_Never(n) ==
    FALSE

\* Mutant: the parent of the moved unit is taken for part of its subtree.
IsMovedUnit_OrParent(n) ==
    n = old_unitid \/ n = overordnet[old_unitid]

\* validator.py:122
IsMovedUnit(n) ==
    n = old_unitid

\* Mutant: the validity state of the node is not looked at.
IsInactive_Never(n) ==
    FALSE

\* validator.py:130-131
IsInactive(n) ==
    gyldighed[n] = "Inaktiv"

\* Any content of the store: every unit has some parent (a unit or the
\* organisation) and some validity state; cycles are not excluded.
InitMove ==
    /\ Idle
    /\ overordnet \in [Units -> Units \cup {Org}]
    /\ gyldighed \in [Units -> Gyldighed]
    /\ NoBatch
    /\ NoStored

\* validator.py:110-118 and 142: fetch the moved unit, refuse the root,
\* otherwise call is_node_valid(new_unitid).
is_candidate_parent_valid ==
    /\ pc = "idle"
    /\ \E old \in Units, new \in Units :
          /\ old_unitid' = old
          /\ new_unitid' = new
          /\ reads' = <<old>>
          /\ IF IsRootUnit(old)
             THEN /\ raised' = "V_CANNOT_MOVE_ROOT_ORG_UNIT"
                  /\ pc' = "done"
                  /\ UNCHANGED <<node_uuid, depth>>
             ELSE /\ raised' = "none"
                  /\ pc' = "walk"
                  /\ node_uuid' = new
                  /\ depth' = 1
    /\ caller' = "move"
    /\ UNCHANGED <<overordnet, gyldighed, rangeVars, batchVars, editVars>>

\* validator.py:143-144: is_node_valid returned False.
Reject ==
    /\ raised' = "V_ORG_UNIT_MOVE_TO_CHILD"
    /\ pc' = "done"
    /\ UNCHANGED <<node_uuid, depth>>

\* validator.py:121-140: one call of is_node_valid(node_uuid).  Every
\* return is a tail return, so the value of the innermost call is the
\* value of the whole walk.
is_node_valid ==
    /\ pc = "walk"
    /\ IF IsMovedUnit(node_uuid)
       THEN /\ Reject
            /\ UNCHANGED reads
       ELSE /\ reads' = Append(reads, node_uuid)
            /\ IF IsInactive(node_uuid)
               THEN Reject
               ELSE IF IsRootUnit(node_uuid)
               THEN /\ raised' = "none"
                    /\ pc' = "done"
                    /\ UNCHANGED <<node_uuid, depth>>
               ELSE IF depth >= RecursionLimit
               THEN /\ raised' = "RecursionError"
                    /\ pc' = "done"
                    /\ UNCHANGED <<node_uuid, depth>>
               ELSE /\ node_uuid' = overordnet[node_uuid]
                    /\ depth' = depth + 1
                    /\ UNCHANGED <<pc, raised>>
    /\ UNCHANGED <<caller, overordnet, gyldighed, old_unitid, new_unitid,
                   rangeVars, batchVars, editVars>>

NextMove ==
    \/ is_candidate_parent_valid
    \/ is_node_valid

SpecMove ==
    InitMove /\ [][NextMove]_vars

(* ------------------------------------------------------------------ *)
(* generate_requests / submit_requests (service/handlers.py)            *)
(* ------------------------------------------------------------------ *)

RequestTypes ==
    {"CREATE", "EDIT", "TERMINATE"}

\* A request as the pipeline sees it: whether its 'type' is a registered
\* role type, and whether the handler's prepare_* method (which reads the
\* store and validates) returns or raises.
Requests ==
    [known : BOOLEAN, prepare_ok : BOOLEAN]

Batches ==
    UNION {[1..n -> Requests] : n \in 0..MaxBatch}

\* handlers.py:405-407: operations.issubset(HANDLERS_BY_ROLE_TYPE)
TypesKnown(b) ==
    \A i \in 1..Len(b) : b[i].known

\* Mutant: the list of handlers is produced lazily, so submitting starts
\* once the first handler exists.
AllConstructed_Lazy(i, b) ==
    i > Len(b) \/ i > 1

\* handlers.py:412-415: the list comprehension has run over the whole
\* batch when its index has passed the last request.
AllConstructed(i, b) ==
    i > Len(b)

\* handlers.py:279-282
WriteOp(rt) ==
    IF rt = "CREATE" THEN "create" ELSE "update"

InitBatch ==
    /\ Idle
    /\ NoHierarchy
    /\ batch \in Batches
    /\ request_type \in RequestTypes
    /\ NoStored

\* handlers.py:401-410: the type check of generate_requests.
generate_requests ==
    /\ pc = "idle"
    /\ caller' = "batch"
    /\ idx' = 1
    /\ IF ~TypesKnown(batch)
       THEN /\ raised' = "E_UNKNOWN_ROLE_TYPE"
            /\ pc' = "done"
       ELSE /\ raised' = "none"
            /\ pc' = IF AllConstructed(1, batch) THEN "submit" ELSE "construct"
    /\ UNCHANGED <<batch, request_type, handlers, log, rangeVars, moveVars,
                   editVars>>

\* handlers.py:412-415 and 77-103: one handler is constructed; its
\* __init__ runs prepare_create / prepare_edit / prepare_terminate, which
\* only reads the store, and an exception leaves generate_requests.
RequestHandler_init ==
    /\ pc = "construct"
    /\ IF ~batch[idx].prepare_ok
       THEN /\ raised' = "prepare raised"
            /\ pc' = "done"
            /\ UNCHANGED <<idx, handlers>>
       ELSE /\ handlers' = Append(handlers, idx)
            /\ idx' = IF AllConstructed(idx + 1, batch) THEN 1 ELSE idx + 1
            /\ pc' = IF AllConstructed(idx + 1, batch)
                     THEN "submit" ELSE "construct"
            /\ UNCHANGED raised
    /\ UNCHANGED <<caller, batch, request_type, log, rangeVars, moveVars,
                   editVars>>

\* handlers.py:418-419 and 276-285: submit() of the next handler writes
\* to the store (the write may raise); after the last one submit_requests
\* returns.
submit_requests ==
    /\ pc = "submit"
    /\ IF idx > Len(handlers)
       THEN /\ pc' = "done"
            /\ UNCHANGED <<idx, log, raised>>
       ELSE \E store_ok \in BOOLEAN :
               IF store_ok
               THEN /\ log' = Append(log, [op |-> WriteOp(request_type),
                                           req |-> handlers[idx]])
                    /\ idx' = idx + 1
                    /\ UNCHANGED <<pc, raised>>
               ELSE /\ raised' = "store error"
                    /\ pc' = "done"
                    /\ UNCHANGED <<idx, log>>
    /\ UNCHANGED <<caller, batch, request_type, handlers, rangeVars, moveVars,
                   editVars>>

NextBatch ==
    \/ generate_requests
    \/ RequestHandler_init
    \/ submit_requests

SpecBatch ==
    InitBatch /\ [][NextBatch]_vars

(* ------------------------------------------------------------------ *)
(* AssociationRequestHandler.prepare_edit and its submit                *)
(* (service/association.py, service/handlers.py)                        *)
(* ------------------------------------------------------------------ *)

\* The values a registration can carry (the job of the spec's examples).
Values ==
    {"JobA", "JobB"}

\* Validity intervals [from, to).
Intervals ==
    {v \in [from : Time, to : Time] : v.from < v.to}

\* A registration: a validity and the value valid in it.
Registrations ==
    {r \in [from : Time, to : Time, state : Values] : r.from < r.to}

\* common.inactivate_old_interval as prepare_edit calls it: it is handed
\* the claimed old validity and the new one, not the stored object.  When
\* the new validity starts after the old one, the part [old_from,
\* new_from) is cut off; otherwise nothing is.
inactivate_old_interval(old_from, old_to, new_from, new_to) ==
    IF new_from > old_from
    THEN <<[from |-> old_from, to |-> new_from]>>
    ELSE <<>>

\* common.update_payload for the new validity: the fragment that carries
\* the new value over the whole new interval.
update_payload(new_from, new_to, new_state) ==
    <<[from |-> new_from, to |-> new_to, state |-> new_state]>>

\* association.py:108-115: the truncation is computed only when the
\* request carries 'original', and from the validity found there.
OldIntervalUpdate(original_data, data) ==
    IF original_data # <<>>
    THEN inactivate_old_interval(original_data[1].from, original_data[1].to,
                                 data.from, data.to)
    ELSE <<>>

\* association.py:105-180: the payload of the edit.  The cut-off part
\* keeps what the store holds there.
EditPayload(original, original_data, data) ==
    [truncate |-> [i \in 1..Len(OldIntervalUpdate(original_data, data)) |->
                      [from  |-> OldIntervalUpdate(original_data, data)[i].from,
                       to    |-> OldIntervalUpdate(original_data, data)[i].to,
                       state |-> original.state]],
     insert   |-> update_payload(data.from, data.to, data.state)]

\* The store holds one registration of the association being edited.
InitEdit ==
    /\ Idle
    /\ NoHierarchy
    /\ NoBatch
    /\ stored \in Registrations

\* association.py:91-198: prepare_edit.  The validators of lines 100 and
\* 182-195 read the store and either return or raise.
prepare_edit ==
    /\ pc = "idle"
    /\ caller' = "association_edit"
    /\ \E original_data \in {<<>>} \cup {<<v>> : v \in Intervals},
          data \in Registrations,
          validation_ok \in BOOLEAN :
          /\ req_original' = original_data
          /\ req_data' = data
          /\ IF validation_ok
             THEN /\ payload' = EditPayload(stored, original_data, data)
                  /\ raised' = "none"
                  /\ pc' = "submit"
             ELSE /\ payload' = <<>>
                  /\ raised' = "validation error"
                  /\ pc' = "done"
    /\ UNCHANGED <<stored, rangeVars, moveVars, batchVars>>

\* handlers.py:276-285: submit of an EDIT handler issues one update.
submit_edit ==
    /\ pc = "submit"
    /\ log' = Append(log, [op |-> WriteOp("EDIT"), payload |-> payload])
    /\ pc' = "done"
    /\ UNCHANGED <<caller, raised, editVars, rangeVars, moveVars,
                   batch, request_type, idx, handlers>>

NextEdit ==
    \/ prepare_edit
    \/ submit_edit

SpecEdit ==
    InitEdit /\ [][NextEdit]_vars

(* ------------------------------------------------------------------ *)
(* ITSystems.create and ITSystems.edit (service/itsystem.py)            *)
(* ------------------------------------------------------------------ *)

\* Most relations the store holds for one entity.
MaxRels ==
    2

\* The IT systems a relation can point at.
Systems ==
    {"sysA", "sysB"}

\* The validities of IT-system relations.
ITIntervals ==
    {v \in [from : {D20170101, D20170829, PosInf},
            to   : {D20170101, D20170829, PosInf}] : v.from < v.to}

\* util.to_lora_time: a time as the store writes it, an ISO-8601 stamp or
\* one of the two sentinels.
to_lora_time(t) ==
    CASE t = NegInf    -> "-infinity"
      [] t = PosInf    -> "infinity"
      [] t = D20170101 -> "2017-01-01T00:00:00+01:00"
      [] t = D20170829 -> "2017-08-29T00:00:00+02:00"
      [] OTHER         -> "2017-09-01T00:00:00+02:00"

\* itsystem.py:233-242
get_relation_for(value, start, end) ==
    [uuid       |-> value,
     objekttype |-> "itsystem",
     virkning   |-> [from |-> to_lora_time(start), to |-> to_lora_time(end)]]

Relations ==
    {get_relation_for(u, v.from, v.to) : u \in Systems, v \in ITIntervals}

RelationLists ==
    UNION {[1..n -> Relations] : n \in 0..MaxRels}

\* What a request names: a system and a validity.
Entries ==
    {[uuid |-> u, from |-> v.from, to |-> v.to] :
        u \in Systems, v \in ITIntervals}

\* itsystem.py:258-262 with the list put first (the list is no longer
\* followed by the new relation).
AppendRelation_Prepend(rels, rel) ==
    <<rel>> \o rels

\* itsystem.py:258-262: rels.append(...) on the stored list.
AppendRelation(rels, rel) ==
    Append(rels, rel)

\* Position of a relation in a list, 0 when it is not there.
IndexOf(rels, rel) ==
    IF \E i \in 1..Len(rels) : rels[i] = rel
    THEN CHOOSE i \in 1..Len(rels) :
            rels[i] = rel /\ \A j \in 1..(i - 1) : rels[j] # rel
    ELSE 0

\* common.replace_relation_value: the stored relation equal to the old
\* one gives way to the new one, the others stay.
replace_relation_value(rels, old_rel, new_rel) ==
    [i \in 1..Len(rels) |->
        IF i = IndexOf(rels, old_rel) THEN new_rel ELSE rels[i]]

\* The store holds the entity with its relations, or does not hold it.
InitIT ==
    /\ Idle
    /\ NoHierarchy
    /\ NoBatch
    /\ stored \in [found : BOOLEAN, rels : RelationLists]
    /\ stored.found \/ stored.rels = <<>>

\* itsystem.py:244-271.  A request without an IT system fails at lines
\* 245-247, one without a validity at line 260.
create ==
    /\ pc = "idle"
    /\ caller' = "itsystem_create"
    /\ pc' = "done"
    /\ \E entry \in Entries,
          shape \in {"ok", "no itsystem", "no validity"} :
          /\ req_data' = entry
          /\ IF shape = "no itsystem"
             THEN raised' = "bad request" /\ log' = log
             ELSE IF ~stored.found
             THEN raised' = "E_NOT_FOUND" /\ log' = log
             ELSE IF shape = "no validity"
             THEN raised' = "bad request" /\ log' = log
             ELSE /\ raised' = "none"
                  /\ log' = Append(log,
                        [op |-> "update",
                         tilknyttedeitsystemer |->
                            AppendRelation(stored.rels,
                                get_relation_for(entry.uuid, entry.from,
                                                 entry.to))])
    /\ UNCHANGED <<stored, req_original, payload, rangeVars, moveVars,
                   batch, request_type, idx, handlers>>

\* itsystem.py:273-311.  Line 280 subscripts the object read, which fails
\* when there is none.
edit ==
    /\ pc = "idle"
    /\ caller' = "itsystem_edit"
    /\ pc' = "done"
    /\ \E old_entry \in {<<>>} \cup {<<e>> : e \in Entries},
          new_entry \in Entries :
          /\ req_original' = old_entry
          /\ req_data' = new_entry
          /\ IF ~stored.found
             THEN raised' = "TypeError" /\ log' = log
             ELSE IF old_entry = <<>>
             THEN raised' = "V_ORIGINAL_REQUIRED" /\ log' = log
             ELSE IF IndexOf(stored.rels,
                             get_relation_for(old_entry[1].uuid,
                                 old_entry[1].from, old_entry[1].to)) = 0
             THEN raised' = "StaleEditError" /\ log' = log
             ELSE /\ raised' = "none"
                  /\ log' = Append(log,
                        [op |-> "update",
                         tilknyttedeitsystemer |->
                            replace_relation_value(stored.rels,
                                get_relation_for(old_entry[1].uuid,
                                    old_entry[1].from, old_entry[1].to),
                                get_relation_for(new_entry.uuid,
                                    new_entry.from, new_entry.to))])
    /\ UNCHANGED <<stored, payload, rangeVars, moveVars,
                   batch, request_type, idx, handlers>>

NextIT ==
    \/ create
    \/ edit

SpecIT ==
    InitIT /\ [][NextIT]_vars

(* ------------------------------------------------------------------ *)
(* move_employee (mora/api.py)                                          *)
(* ------------------------------------------------------------------ *)

\* Most engagements in the two lists of a move request together.
MaxEngagements ==
    1

\* Most validity periods of one organisation function.
MaxPeriods ==
    2

\* The 'organisationfunktiongyldighed' of a function as the store returns
\* it: periods in time order that do not overlap.
PeriodLists ==
    UNION {{g \in [1..n -> [from : Time, to : Time, gyldighed : Gyldighed]] :
               /\ \A i \in 1..n : g[i].from < g[i].to
               /\ \A i \in 1..(n - 1) : g[i].to <= g[i + 1].from}
           : n \in 0..MaxPeriods}

\* What organisationfunktion.get returns: the function or nothing.
OrgFunks ==
    {o \in [found : BOOLEAN, organisationfunktiongyldighed : PeriodLists] :
        o.found \/ o.organisationfunktiongyldighed = <<>>}

\* api.py:155-159, the list before [0] is taken.
ActivePeriods(orgfunk) ==
    SelectSeq(orgfunk.organisationfunktiongyldighed,
              LAMBDA g : g.gyldighed = "Aktiv")

\* api.py:154-159 without the filter on 'Aktiv'.
get_orgfunk_virkning_Unfiltered(orgfunk) ==
    [from |-> orgfunk.organisationfunktiongyldighed[1].from,
     to   |-> orgfunk.organisationfunktiongyldighed[1].to]

\* api.py:154-159: the validity of the first 'Aktiv' period.
get_orgfunk_virkning(orgfunk) ==
    [from |-> ActivePeriods(orgfunk)[1].from,
     to   |-> ActivePeriods(orgfunk)[1].to]

\* writing.inactivate_org_funktion: the function stays active on
\* [startdate, enddate) and nowhere else.
inactivate_org_funktion(start, end) ==
    [aktiv |-> <<[from |-> start, to |-> end]>>]

\* writing.fully_inactivate_org_funktion: the function is active nowhere.
fully_inactivate_org_funktion(start, end) ==
    [aktiv |-> <<>>]

\* writing.move_org_funktion: a copy of the function, valid on
\* [startdate, enddate).
move_org_funktion(orgfunk, start, end) ==
    [virkning |-> [from |-> start, to |-> end]]

\* Where the handler stands with i - 1 engagements done (api.py:102,
\* 124, 151).
LoopPc(i, req) ==
    IF i <= req.present THEN "present"
    ELSE IF i <= req.present + req.future THEN "future"
    ELSE "done"

InitEmployee ==
    /\ Idle
    /\ NoHierarchy
    /\ NoBatch
    /\ NoStored

\* api.py:91-100: the request.
move_employee ==
    /\ pc = "idle"
    /\ caller' = "move_employee"
    /\ \E d \in Time, n \in 0..MaxEngagements, m \in 0..MaxEngagements :
          /\ n + m <= MaxEngagements
          /\ req_data' = [date |-> d, present |-> n, future |-> m]
          /\ pc' = LoopPc(1, [present |-> n, future |-> m])
    /\ idx' = 1
    /\ UNCHANGED <<raised, stored, req_original, payload, rangeVars, moveVars,
                   batch, request_type, handlers, log>>

\* api.py:102-121: one present engagement.
present_engagement ==
    /\ pc = "present"
    /\ \E orgfunk \in OrgFunks, update_ok \in BOOLEAN, create_ok \in BOOLEAN :
          /\ stored' = orgfunk
          /\ IF ~orgfunk.found
             THEN raised' = "TypeError" /\ log' = log
                  /\ pc' = "done" /\ idx' = idx
             ELSE IF ActivePeriods(orgfunk) = <<>>
             THEN raised' = "IndexError" /\ log' = log
                  /\ pc' = "done" /\ idx' = idx
             ELSE IF ~update_ok
             THEN raised' = "store error" /\ log' = log
                  /\ pc' = "done" /\ idx' = idx
             ELSE IF ~create_ok
             THEN /\ raised' = "store error"
                  /\ log' = Append(log,
                        [op |-> "update",
                         payload |-> inactivate_org_funktion(
                            get_orgfunk_virkning(orgfunk).from,
                            req_data.date)])
                  /\ pc' = "done" /\ idx' = idx
             ELSE /\ raised' = raised
                  /\ log' = log \o
                       <<[op |-> "update",
                          payload |-> inactivate_org_funktion(
                             get_orgfunk_virkning(orgfunk).from,
                             req_data.date)],
                         [op |-> "create",
                          payload |-> move_org_funktion(orgfunk,
                             req_data.date,
                             get_orgfunk_virkning(orgfunk).to)]>>
                  /\ idx' = idx + 1
                  /\ pc' = LoopPc(idx + 1, req_data)
    /\ UNCHANGED <<caller, req_original, req_data, payload, rangeVars,
                   moveVars, batch, request_type, handlers>>

\* api.py:124-149: one future engagement; 'overwrite' is 1, 0 or
\* something else.
future_engagement ==
    /\ pc = "future"
    /\ \E orgfunk \in OrgFunks, overwrite \in {0, 1, None},
          store_ok \in BOOLEAN :
          /\ stored' = orgfunk
          /\ IF ~orgfunk.found
             THEN raised' = "TypeError" /\ log' = log
                  /\ pc' = "done" /\ idx' = idx
             ELSE IF ActivePeriods(orgfunk) = <<>>
             THEN raised' = "IndexError" /\ log' = log
                  /\ pc' = "done" /\ idx' = idx
             ELSE IF overwrite # None /\ ~store_ok
             THEN raised' = "store error" /\ log' = log
                  /\ pc' = "done" /\ idx' = idx
             ELSE /\ raised' = raised
                  /\ log' = log \o
                       (IF overwrite = 1
                        THEN <<[op |-> "update",
                                payload |-> fully_inactivate_org_funktion(
                                   get_orgfunk_virkning(orgfunk).from,
                                   get_orgfunk_virkning(orgfunk).to)],
                               [op |-> "create",
                                payload |-> move_org_funktion(orgfunk,
                                   req_data.date,
                                   get_orgfunk_virkning(orgfunk).to)]>>
                        ELSE IF overwrite = 0
                        THEN <<[op |-> "create",
                                payload |-> move_org_funktion(orgfunk,
                                   req_data.date,
                                   get_orgfunk_virkning(orgfunk).from)]>>
                        ELSE <<>>)
                  /\ idx' = idx + 1
                  /\ pc' = LoopPc(idx + 1, req_data)
    /\ UNCHANGED <<caller, req_original, req_data, payload, rangeVars,
                   moveVars, batch, request_type, handlers>>

NextEmployee ==
    \/ move_employee
    \/ present_engagement
    \/ future_engagement

SpecEmployee ==
    InitEmployee /\ [][NextEmployee]_vars

(* ------------------------------------------------------------------ *)
(* Projection of a stored timeline onto a window (the scope's           *)
(* get_effects for a connector built with virkningfra / virkningtil).   *)
(* ------------------------------------------------------------------ *)

Max(a, b) ==
    IF a >= b THEN a ELSE b

Min(a, b) ==
    IF a <= b THEN a ELSE b

\* A registration clipped to the window [from, to).
Clip(r, from, to) ==
    [start |-> Max(r.start, from), end |-> Min(r.end, to),
     vs |-> <<r.gyldighed>>]

\* Most registrations of one stored timeline.
MaxRegs ==
    2

\* Step 1: every registration clipped to the window, the empty results
\* dropped; the stored order is kept.
Clipped(timeline, from, to) ==
    SelectSeq([i \in 1..Len(timeline) |-> Clip(timeline[i], from, to)],
              LAMBDA c : c.start < c.end)

\* A half-open interval with its end taken as part of it.
Covers_Inclusive(c, t) ==
    c.start <= t /\ t <= c.end

\* The instant t lies in the half-open interval of c.
Covers(c, t) ==
    c.start <= t /\ t < c.end

\* Precedence where two registrations overlap: the one that starts later
\* is the boundary the sweep met last; of two that start together the
\* shorter one wins, and of two with the same interval the one asserted
\* later (last write wins).
Wins(cs, i, j) ==
    \/ cs[i].start > cs[j].start
    \/ /\ cs[i].start = cs[j].start
       /\ \/ cs[i].end < cs[j].end
          \/ cs[i].end = cs[j].end /\ i >= j

\* The state in force at t, <<>> where nothing covers t.
StateAt(cs, t) ==
    IF \E i \in 1..Len(cs) : Covers(cs[i], t)
    THEN cs[CHOOSE i \in 1..Len(cs) :
                /\ Covers(cs[i], t)
                /\ \A j \in 1..Len(cs) : Covers(cs[j], t) => Wins(cs, i, j)].vs
    ELSE <<>>

\* Steps 2-4: the sweep from left to right.  Where the state in force is
\* that of the effect ending here the effect is extended, otherwise a new
\* one is opened; nothing is emitted for a gap.
RECURSIVE Sweep(_, _, _, _)
Sweep(cs, t, to, acc) ==
    IF t >= to THEN acc
    ELSE IF StateAt(cs, t) = <<>> THEN Sweep(cs, t + 1, to, acc)
    ELSE IF /\ acc # <<>>
            /\ acc[Len(acc)].end = t
            /\ acc[Len(acc)].vs = StateAt(cs, t)
    THEN Sweep(cs, t + 1, to,
               [acc EXCEPT ![Len(acc)].end = t + 1])
    ELSE Sweep(cs, t + 1, to,
               Append(acc, [start |-> t, end |-> t + 1,
                            vs |-> StateAt(cs, t)]))

get_effects(timeline, from, to) ==
    Sweep(Clipped(timeline, from, to), from, to, <<>>)

\* An effect read as a registration again.
AsRegistration(e) ==
    [gyldighed |-> e.vs[1], start |-> e.start, end |-> e.end]

\* Stored timelines: registrations in any order, overlapping or not.
Timelines ==
    UNION {[1..n -> {r \in [gyldighed : Gyldighed, start : Time, end : Time] :
                        r.start < r.end}] : n \in 0..MaxRegs}

\* The store holds a timeline.
InitProject ==
    /\ Idle
    /\ NoHierarchy
    /\ NoBatch
    /\ stored \in Timelines

\* The projection of the stored timeline on a window.
project ==
    /\ pc = "idle"
    /\ caller' = "project"
    /\ \E from \in Time, to \in Time :
          /\ startdate' = from
          /\ enddate' = to
          /\ effects' = get_effects(stored, from, to)
    /\ queries' = queries + 1
    /\ pc' = "projected"
    /\ UNCHANGED <<raised, result, moveVars, batchVars, editVars>>

\* The projection of these effects on the same window.
project_again ==
    /\ pc = "projected"
    /\ result' = get_effects([i \in 1..Len(effects) |->
                                 AsRegistration(effects[i])],
                             startdate, enddate)
    /\ queries' = queries + 1
    /\ pc' = "done"
    /\ UNCHANGED <<caller, raised, startdate, enddate, effects, moveVars,
                   batchVars, editVars>>

NextProject ==
    \/ project
    \/ project_again

SpecProject ==
    InitProject /\ [][NextProject]_vars

\* The stored validity states of the unit of TestGetEndpointDate.setUp,
\* in stored order.
TestTimeline ==
    << [gyldighed |-> "Aktiv",   start |-> D20170101, end |-> D20170829],
       [gyldighed |-> "Inaktiv", start |-> NegInf,    end |-> D20170101],
       [gyldighed |-> "Inaktiv", start |-> D20170829, end |-> PosInf] >>

(* ------------------------------------------------------------------ *)
(* The two range validations of one request                             *)
(* (service/association.py:62-65, validator.py:63-94), their steps      *)
(* taken in any order.                                                  *)
(* ------------------------------------------------------------------ *)

Validators ==
    {"org_unit", "employee"}

\* validator.py:64-67 and 81-84 with both validators on the scope of the
\* organisational unit.
ScopeOf_Shared(who) ==
    "org_unit"

\* validator.py:64-67 and 81-84: the scope a validator reads, that of the
\* organisational unit (.organisationenhed) or of the employee (.bruger).
ScopeOf(who) ==
    who

\* validator.py:74 and 91: the error a validator raises.
ErrorOf(who) ==
    IF who = "org_unit" THEN "V_DATE_OUTSIDE_ORG_UNIT_RANGE"
    ELSE "V_DATE_OUTSIDE_EMPL_RANGE"

\* The timelines the store holds for the unit and for the employee: none,
\* one active period, or the periods of the test unit.
PairTimelines ==
    {t \in Timelines :
        Len(t) <= 1 /\ \A i \in 1..Len(t) : t[i].gyldighed = "Aktiv"}
    \cup {TestTimeline}

InitPair ==
    /\ Idle
    /\ NoHierarchy
    /\ NoBatch
    /\ stored \in [Validators -> PairTimelines]

\* association.py:54-65: the validity of the request; both validations
\* are about to run.
prepare_create ==
    /\ pc = "idle"
    /\ caller' = "prepare_create"
    /\ \E valid_from \in Time, valid_to \in Time :
          /\ startdate' = valid_from
          /\ enddate' = valid_to
    /\ effects' = [who \in Validators |-> <<>>]
    /\ result' = [who \in Validators |-> "called"]
    /\ pc' = "validating"
    /\ UNCHANGED <<raised, queries, moveVars, batchVars, editVars>>

\* validator.py:29-34: the empty range is answered at once, otherwise the
\* effects of the parent are read from the validator's scope.
validator_get_effects ==
    /\ pc = "validating"
    /\ raised = "none"
    /\ \E who \in Validators :
          /\ result[who] = "called"
          /\ result' = [result EXCEPT ![who] = "read"]
          /\ effects' = [effects EXCEPT ![who] =
                IF EmptyRange(startdate, enddate) THEN <<>>
                ELSE get_effects(stored[ScopeOf(who)], startdate, enddate)]
          /\ queries' = queries + GetEffectsCalls(startdate, enddate)
          /\ log' = Append(log, <<who, "get_effects">>)
    /\ UNCHANGED <<pc, caller, raised, startdate, enddate, moveVars,
                   batch, request_type, idx, handlers, editVars>>

\* validator.py:34-60 and 69-77 / 86-94: the loop over the effects read,
\* and the error when the range is not covered.
validator_return ==
    /\ pc = "validating"
    /\ raised = "none"
    /\ \E who \in Validators :
          /\ result[who] = "read"
          /\ result' = [result EXCEPT ![who] =
                IF IsDateRangeValid(effects[who], startdate, enddate)
                THEN "returned" ELSE "raised"]
          /\ raised' = IF IsDateRangeValid(effects[who], startdate, enddate)
                       THEN "none" ELSE ErrorOf(who)
          /\ log' = Append(log, <<who, "return">>)
    /\ UNCHANGED <<pc, caller, startdate, enddate, effects, queries, moveVars,
                   batch, request_type, idx, handlers, editVars>>

NextPair ==
    \/ prepare_create
    \/ validator_get_effects
    \/ validator_return

SpecPair ==
    InitPair /\ [][NextPair]_vars

(* ------------------------------------------------------------------ *)
(* publish_message and register (triggers/internal/amqp_trigger.py)     *)
(* ------------------------------------------------------------------ *)

\* amqp_trigger.py:20
_SERVICES ==
    {"employee", "org_unit"}

\* amqp_trigger.py:21-32
_OBJECT_TYPES ==
    {"address", "association", "employee", "engagement", "it", "leave",
     "manager", "org_unit", "related_unit", "role"}

\* amqp_trigger.py:33
_ACTIONS ==
    {"create", "delete", "update"}

\* The arguments a caller can pass, allowed or not.
ServiceArgs ==
    _SERVICES \cup {"organisation"}

ObjectTypeArgs ==
    _OBJECT_TYPES \cup {"itsystem"}

ActionArgs ==
    _ACTIONS \cup {"edit"}

\* amqp_trigger.py:50-59: the three checks of the topic.
TopicAllowed(service, object_type, action) ==
    /\ service \in _SERVICES
    /\ object_type \in _OBJECT_TYPES
    /\ action \in _ACTIONS

\* amqp_trigger.py:9-15: the names the module imports are logging, json,
\* pika, exceptions, util, mapping and Trigger; 'settings', read at line
\* 69, is not among them.
SettingsImported ==
    FALSE

\* amqp_trigger.py:18: amqp_connection = {}
InitAmqp ==
    /\ Idle
    /\ NoHierarchy
    /\ NoBatch
    /\ stored = {}

\* amqp_trigger.py:121-150: with ENABLE_AMQP the connection is opened and
\* put into amqp_connection; opening it fails when the broker is away.
register ==
    /\ pc = "idle"
    /\ caller' = "register"
    /\ \E enable_amqp \in BOOLEAN, broker_up \in BOOLEAN :
          IF ~enable_amqp
          THEN stored' = stored /\ raised' = raised /\ pc' = "registered"
          ELSE IF broker_up
          THEN /\ stored' = stored \cup {"conn", "channel"}
               /\ raised' = raised
               /\ pc' = "registered"
          ELSE /\ stored' = stored
               /\ raised' = "AMQPConnectionError"
               /\ pc' = "done"
    /\ UNCHANGED <<req_original, req_data, payload, rangeVars, moveVars,
                   batchVars>>

\* amqp_trigger.py:36-79
publish_message ==
    /\ pc = "registered"
    /\ caller' = "publish_message"
    /\ pc' = "done"
    /\ \E service \in ServiceArgs, object_type \in ObjectTypeArgs,
          action \in ActionArgs, publish_ok \in BOOLEAN :
          /\ req_data' = [service |-> service, object_type |-> object_type,
                          action |-> action]
          /\ IF stored = {}
             THEN raised' = raised /\ log' = log
             ELSE IF ~TopicAllowed(service, object_type, action)
             THEN raised' = "ValueError" /\ log' = log
             ELSE IF ~SettingsImported
             THEN raised' = "NameError" /\ log' = log
             ELSE IF publish_ok
             THEN /\ raised' = raised
                  /\ log' = Append(log, <<service, object_type, action>>)
             ELSE raised' = raised /\ log' = log
    /\ UNCHANGED <<stored, req_original, payload, rangeVars, moveVars,
                   batch, request_type, idx, handlers>>

NextAmqp ==
    \/ register
    \/ publish_message

SpecAmqp ==
    InitAmqp /\ [][NextAmqp]_vars

(* ------------------------------------------------------------------ *)
(* _get_org_unit_endpoint_date (validator.py:147-165)                   *)
(* ------------------------------------------------------------------ *)

\* The dates of the unit of TestGetEndpointDate.setUp.
TestDates ==
    {NegInf, D20170101, D20170829, PosInf}

\* util.parsedatetime: the time a stamp of the store stands for.
parsedatetime(stamp) ==
    CHOOSE t \in Time : to_lora_time(t) = stamp

\* One entry of tilstande.organisationenhedgyldighed.
UnitPeriods ==
    {g \in [gyldighed : Gyldighed,
            virkning  : [from : {to_lora_time(t) : t \in TestDates},
                         to   : {to_lora_time(t) : t \in TestDates},
                         from_included : BOOLEAN,
                         to_included   : BOOLEAN]] :
        parsedatetime(g.virkning.from) < parsedatetime(g.virkning.to)}

\* Two periods of one object do not overlap.
Disjoint(g, h) ==
    \/ parsedatetime(g.virkning.to) <= parsedatetime(h.virkning.from)
    \/ parsedatetime(h.virkning.to) <= parsedatetime(g.virkning.from)

\* The validity states of a unit as the store returns them: periods that
\* do not overlap, in any order.
UnitPeriodLists ==
    UNION {{gs \in [1..n -> UnitPeriods] :
               \A i \in 1..n : \A j \in 1..n : i # j => Disjoint(gs[i], gs[j])}
           : n \in 0..MaxPeriods}

\* validator.py:157-161 with the 'to' boundary returned whatever enddate
\* is.
EndpointOf_AlwaysTo(virkning, to_end) ==
    parsedatetime(virkning.to)

\* validator.py:157-161; to_end is the argument enddate.
EndpointOf(virkning, to_end) ==
    IF to_end
    THEN parsedatetime(virkning.to)
    ELSE parsedatetime(virkning.from)

\* validator.py:155-165: the loop from the i-th period on; None stands
\* for the raise of line 165.
RECURSIVE EndpointFrom(_, _, _)
EndpointFrom(gs, i, to_end) ==
    IF i > Len(gs) THEN None
    ELSE IF gs[i].gyldighed = "Aktiv" THEN EndpointOf(gs[i].virkning, to_end)
    ELSE EndpointFrom(gs, i + 1, to_end)

\* validator.py:147-165 on org_unit['tilstande']['organisationenhedgyldighed'].
EndpointDate(gs, to_end) ==
    EndpointFrom(gs, 1, to_end)

InitEndpoint ==
    /\ Idle
    /\ NoHierarchy
    /\ NoBatch
    /\ stored \in UnitPeriodLists

_get_org_unit_endpoint_date ==
    /\ pc = "idle"
    /\ caller' = "_get_org_unit_endpoint_date"
    /\ pc' = "done"
    /\ \E to_end \in BOOLEAN :
          /\ req_data' = [enddate |-> to_end]
          /\ result' = EndpointDate(stored, to_end)
          /\ raised' = IF EndpointDate(stored, to_end) = None
                       THEN "the unit did not have an end date!"
                       ELSE "none"
    /\ UNCHANGED <<stored, req_original, payload, startdate, enddate, effects,
                   queries, moveVars, batchVars>>

NextEndpoint ==
    _get_org_unit_endpoint_date

SpecEndpoint ==
    InitEndpoint /\ [][NextEndpoint]_vars

(* ------------------------------------------------------------------ *)
(* is_inactivation_date_valid (validator.py:168-190) and                *)
(* inactivate_org_unit (api.py:255-290)                                 *)
(* ------------------------------------------------------------------ *)

\* Most child units of the unit being inactivated.
MaxChildren ==
    2

\* A period with the conventional flags of a half-open interval.
HalfOpen(g) ==
    g.virkning.from_included /\ ~g.virkning.to_included

\* What lora.get_org_unit returns for the unit.
StoredUnits ==
    {gs \in UnitPeriodLists : \A i \in 1..Len(gs) : HalfOpen(gs[i])}

\* What lora.get_org_unit returns for a child: no period, one active
\* period, or one inactive period.
StoredChildren ==
    {gs \in StoredUnits :
        /\ Len(gs) <= 1
        /\ \A i \in 1..Len(gs) :
              \/ gs[i].gyldighed = "Aktiv"
              \/ /\ gs[i].virkning.from = to_lora_time(NegInf)
                 /\ gs[i].virkning.to = to_lora_time(PosInf)}

\* validator.py:180 with <.
NotAfterStart_Strict(candidate_enddate, start) ==
    candidate_enddate < start

\* validator.py:180: candidate_enddate <= start of the unit.
NotAfterStart(candidate_enddate, start) ==
    candidate_enddate <= start

\* validator.py:187: candidate_enddate < end of the child.
BeforeChildEnd(candidate_enddate, end) ==
    candidate_enddate < end

\* validator.py:185-190: the loop over the children from the k-th on.
RECURSIVE ChildrenOutlived(_, _, _)
ChildrenOutlived(children, k, candidate_enddate) ==
    IF k > Len(children) THEN "True"
    ELSE IF EndpointDate(children[k], TRUE) = None THEN "HTTPException"
    ELSE IF BeforeChildEnd(candidate_enddate, EndpointDate(children[k], TRUE))
    THEN "False"
    ELSE ChildrenOutlived(children, k + 1, candidate_enddate)

\* validator.py:168-190: "True", "False", or the exception of
\* _get_org_unit_endpoint_date.
IsInactivationDateValid(store, end_date) ==
    IF EndpointDate(store.unit, FALSE) = None THEN "HTTPException"
    ELSE IF NotAfterStart(parsedatetime(end_date),
                          EndpointDate(store.unit, FALSE))
    THEN "False"
    ELSE ChildrenOutlived(store.children, 1, parsedatetime(end_date))

\* api.py:275-279: the 'from' of every 'Aktiv' period.
ActiveStarts(org_unit) ==
    [i \in 1..Len(SelectSeq(org_unit, LAMBDA g : g.gyldighed = "Aktiv")) |->
        SelectSeq(org_unit, LAMBDA g : g.gyldighed = "Aktiv")[i].virkning.from]

\* validator.py has no attribute ERRORS, which api.py:269 reads.
ValidatorHasErrors ==
    FALSE

\* writing.inactivate_org_unit: the validity states of a unit active on
\* [startdate, enddate) and inactive from then on.
inactivate_org_unit_payload(start, end) ==
    [organisationenhedgyldighed |->
        <<[gyldighed |-> "Aktiv",
           virkning |-> [from |-> start, to |-> end]],
          [gyldighed |-> "Inaktiv",
           virkning |-> [from |-> end, to |-> to_lora_time(PosInf)]]>>]

InitInactivate ==
    /\ Idle
    /\ NoHierarchy
    /\ NoBatch
    /\ stored \in [unit : StoredUnits,
                   children : UNION {[1..n -> StoredChildren] :
                                        n \in 0..MaxChildren}]

\* validator.py:168-190
is_inactivation_date_valid ==
    /\ pc = "idle"
    /\ caller' = "is_inactivation_date_valid"
    /\ pc' = "done"
    /\ \E t \in Time :
          /\ req_data' = [end_date |-> to_lora_time(t)]
          /\ result' = IsInactivationDateValid(stored, to_lora_time(t))
          /\ raised' = IF IsInactivationDateValid(stored, to_lora_time(t))
                          = "HTTPException"
                       THEN "HTTPException" ELSE "none"
    /\ UNCHANGED <<stored, req_original, payload, startdate, enddate, effects,
                   queries, moveVars, batchVars>>

\* api.py:255-290; result is the status of the response.
inactivate_org_unit ==
    /\ pc = "idle"
    /\ caller' = "inactivate_org_unit"
    /\ pc' = "done"
    /\ \E t \in Time, first_ok \in BOOLEAN, second_ok \in BOOLEAN :
          /\ req_data' = [end_date |-> to_lora_time(t)]
          /\ IF IsInactivationDateValid(stored, to_lora_time(t))
                = "HTTPException"
             THEN raised' = "HTTPException" /\ result' = 500 /\ log' = log
             ELSE IF IsInactivationDateValid(stored, to_lora_time(t)) = "False"
             THEN IF ValidatorHasErrors
                  THEN raised' = raised /\ result' = 400 /\ log' = log
                  ELSE raised' = "AttributeError" /\ result' = 500
                       /\ log' = log
             ELSE IF Len(ActiveStarts(stored.unit)) # 1
             THEN raised' = "AssertionError" /\ result' = 500 /\ log' = log
             ELSE IF ~first_ok
             THEN raised' = "store error" /\ result' = 500 /\ log' = log
             ELSE IF ~second_ok
             THEN /\ raised' = "store error"
                  /\ result' = 500
                  /\ log' = Append(log,
                        [op |-> "update",
                         payload |-> [organisationenhedgyldighed |-> <<>>]])
             ELSE /\ raised' = raised
                  /\ result' = 200
                  /\ log' = log \o
                        <<[op |-> "update",
                           payload |-> [organisationenhedgyldighed |-> <<>>]],
                          [op |-> "update",
                           payload |-> inactivate_org_unit_payload(
                              ActiveStarts(stored.unit)[1],
                              to_lora_time(t))]>>
    /\ UNCHANGED <<stored, req_original, payload, startdate, enddate, effects,
                   queries, moveVars, batch, request_type, idx, handlers>>

NextInactivate ==
    \/ is_inactivation_date_valid
    \/ inactivate_org_unit

SpecInactivate ==
    InitInactivate /\ [][NextInactivate]_vars

(* ------------------------------------------------------------------ *)
(* OrgFunkRequestHandler.submit and RequestHandler.submit               *)
(* (service/handlers.py:150-172, 276-285)                               *)
(* ------------------------------------------------------------------ *)

\* The role_type of a handler class (association.py:29 is one).
RoleTypes ==
    {"association", "engagement", "manager"}

\* The uuids set_domain can leave in employee_uuid and org_unit_uuid.
DomainUuids ==
    {None} \cup Units

\* handlers.py:160-164
ActionOf(rt) ==
    CASE rt = "CREATE" -> "create"
      [] rt = "EDIT" -> "update"
      [] OTHER -> "delete"

\* handlers.py:167 and 170 with the test left out.
IsSet_Always(uuid) ==
    TRUE

\* handlers.py:167 and 170: 'if self.employee_uuid:' / 'if
\* self.org_unit_uuid:'.
IsSet(uuid) ==
    uuid # None

\* amqp.publish_message: the message handed to the exchange; the call
\* returns whether the broker took it or not.
Published(service, action, role_type, uuid) ==
    [op |-> "publish", service |-> service, action |-> action,
     role_type |-> role_type, uuid |-> uuid]

\* A handler whose __init__ has run.
InitSubmit ==
    /\ Idle
    /\ NoHierarchy
    /\ batch = <<>>
    /\ request_type \in RequestTypes
    /\ stored \in [role_type : RoleTypes, employee_uuid : DomainUuids,
                   org_unit_uuid : DomainUuids]

\* handlers.py:276-283: the write, which may raise.
submit ==
    /\ pc = "idle"
    /\ caller' = "submit"
    /\ \E store_ok \in BOOLEAN :
          IF store_ok
          THEN /\ log' = Append(log, [op |-> WriteOp(request_type)])
               /\ raised' = raised
               /\ pc' = "publish employee"
          ELSE /\ log' = log
               /\ raised' = "store error"
               /\ pc' = "done"
    /\ UNCHANGED <<editVars, rangeVars, moveVars, batch, request_type, idx,
                   handlers>>

\* handlers.py:284 and 160-169: super().submit(), the employee message.
publish_employee ==
    /\ pc = "publish employee"
    /\ log' = IF IsSet(stored.employee_uuid)
              THEN Append(log, Published("employee", ActionOf(request_type),
                                         stored.role_type,
                                         stored.employee_uuid))
              ELSE log
    /\ pc' = "publish organisation"
    /\ UNCHANGED <<caller, raised, editVars, rangeVars, moveVars, batch,
                   request_type, idx, handlers>>

\* handlers.py:170-172 and 285: the organisation message, and the return.
publish_organisation ==
    /\ pc = "publish organisation"
    /\ log' = IF IsSet(stored.org_unit_uuid)
              THEN Append(log, Published("organisation",
                                         ActionOf(request_type),
                                         stored.role_type,
                                         stored.org_unit_uuid))
              ELSE log
    /\ pc' = "done"
    /\ UNCHANGED <<caller, raised, editVars, rangeVars, moveVars, batch,
                   request_type, idx, handlers>>

NextSubmit ==
    \/ submit
    \/ publish_employee
    \/ publish_organisation

SpecSubmit ==
    InitSubmit /\ [][NextSubmit]_vars

(* ------------------------------------------------------------------ *)
(* Registration of handler classes (service/handlers.py:39-75, 213-223) *)
(* ------------------------------------------------------------------ *)

\* Most handler classes defined in one run.
MaxClasses ==
    2

\* A class attribute left at None (handlers.py:65, 191).
Unset ==
    "None"

\* The function_key values of handler classes (association.py:30 is one).
FunctionKeyValues ==
    {"Tilknytning", "Engagement"}

\* A class definition: its attributes, whether it still has abstract
\* methods, and whether it derives from OrgFunkRequestHandler.
ClassDefinitions ==
    [role_type    : RoleTypes \cup {Unset},
     function_key : FunctionKeyValues \cup {Unset},
     abstract     : BOOLEAN,
     orgfunk      : BOOLEAN]

\* handlers.py:72-73: the assertions of RequestHandler._register.
RoleFree(reg, cls) ==
    /\ cls.role_type # Unset
    /\ reg.HANDLERS_BY_ROLE_TYPE[cls.role_type] = None

\* handlers.py:218-220: the assertions of OrgFunkRequestHandler._register.
KeyFree(reg, cls) ==
    /\ cls.function_key # Unset
    /\ cls.role_type # Unset
    /\ reg.HANDLERS_BY_FUNCTION_KEY[cls.function_key] = None

\* handlers.py:75
BindRole(reg, cls, id) ==
    [reg EXCEPT !.HANDLERS_BY_ROLE_TYPE[cls.role_type] = id]

\* handlers.py:222-223
BindKey(reg, cls, id) ==
    [reg EXCEPT !.HANDLERS_BY_FUNCTION_KEY[cls.function_key] = id,
                !.FUNCTION_KEYS[cls.role_type] = cls.function_key]

\* handlers.py:39-41: the three registries are empty.
InitRegistry ==
    /\ Idle
    /\ NoHierarchy
    /\ NoBatch
    /\ stored = [HANDLERS_BY_ROLE_TYPE    |-> [r \in RoleTypes |-> None],
                 HANDLERS_BY_FUNCTION_KEY |-> [k \in FunctionKeyValues |-> None],
                 FUNCTION_KEYS            |-> [r \in RoleTypes |-> Unset]]

\* handlers.py:50-56, 70-75 and 213-223: a class statement.  The class
\* gets the next number; handlers keeps the definitions made so far.
define_class ==
    /\ Len(handlers) < MaxClasses
    /\ caller' = "define_class"
    /\ \E cls \in ClassDefinitions :
          /\ handlers' = Append(handlers, cls)
          /\ IF cls.abstract
             THEN stored' = stored /\ raised' = "none"
             ELSE IF ~RoleFree(stored, cls)
             THEN stored' = stored /\ raised' = "AssertionError"
             ELSE IF ~cls.orgfunk
             THEN /\ stored' = BindRole(stored, cls, Len(handlers) + 1)
                  /\ raised' = "none"
             ELSE IF ~KeyFree(BindRole(stored, cls, Len(handlers) + 1), cls)
             THEN /\ stored' = BindRole(stored, cls, Len(handlers) + 1)
                  /\ raised' = "AssertionError"
             ELSE /\ stored' = BindKey(BindRole(stored, cls,
                                                Len(handlers) + 1),
                                       cls, Len(handlers) + 1)
                  /\ raised' = "none"
    /\ UNCHANGED <<pc, req_original, req_data, payload, rangeVars, moveVars,
                   batch, request_type, idx, log>>

NextRegistry ==
    define_class

SpecRegistry ==
    InitRegistry /\ [][NextRegistry]_vars

(* ------------------------------------------------------------------ *)
(* SpecCreate: one create_employee request (mora/service/employee.py),  *)
(* the loop over the batch taken one request at a time.  req_original   *)
(* is the JSON list as received, batch the same list as the loop leaves *)
(* it (valid_to is defaulted in place), idx the position of the loop,   *)
(* log the handler invocations made so far, result the response status. *)
(* ------------------------------------------------------------------ *)
MaxReqs ==
    3

\* employee.py:246-254: the role types that have a handler.
CreateHandlers ==
    {"engagement", "association", "contact"}

\* The values of 'type' in a request: the three above, one of the
\* commented-out roles, and no 'type' at all.
TypeValues ==
    CreateHandlers \cup {"leader", Unset}

\* The values of 'valid_to' in a request: absent, empty, a date.
ValidToValues ==
    {Unset, "", "2018-01-01T00:00:00+00:00"}

CreateRequests ==
    [type : TypeValues, valid_to : ValidToValues]

\* employee.py:259: handlers.get(role_type); Unset stands for None.
HandlerOf(role_type) ==
    IF role_type \in CreateHandlers THEN role_type ELSE Unset

DefaultValidTo_MissingOnly(valid_to) ==
    IF valid_to = Unset THEN "infinity" ELSE valid_to

\* employee.py:262-263 (and again 269-270): a missing or empty valid_to
\* becomes 'infinity'.
DefaultValidTo(valid_to) ==
    IF valid_to \in {Unset, ""} THEN "infinity" ELSE valid_to

InitCreate ==
    /\ Idle
    /\ NoHierarchy
    /\ NoStored
    /\ batch = <<>>
    /\ request_type = "CREATE"

\* employee.py:256: reqs = flask.request.get_json()
create_employee ==
    /\ pc = "idle"
    /\ caller' = "create_employee"
    /\ pc' = "loop"
    /\ idx' = 1
    /\ \E reqs \in UNION {[1..n -> CreateRequests] : n \in 0..MaxReqs} :
          /\ req_original' = reqs
          /\ batch' = reqs
    /\ UNCHANGED <<stored, req_data, payload, rangeVars, raised, moveVars,
                   request_type, handlers, log>>

\* employee.py:257-272: one pass of the loop.  The handler writes to the
\* store and may fail there; its exception ends the request.
create_employee_request ==
    /\ pc = "loop"
    /\ idx <= Len(batch)
    /\ batch' = [batch EXCEPT
                    ![idx].valid_to = DefaultValidTo(batch[idx].valid_to)]
    /\ IF HandlerOf(batch[idx].type) = Unset
       THEN /\ result' = 400
            /\ pc' = "done"
            /\ UNCHANGED <<idx, log, raised>>
       ELSE \E handler_ok \in BOOLEAN :
            /\ log' = Append(log, [handler |-> HandlerOf(batch[idx].type),
                                   req |-> batch'[idx]])
            /\ IF handler_ok
               THEN /\ idx' = idx + 1
                    /\ UNCHANGED <<pc, result, raised>>
               ELSE /\ raised' = "handler error"
                    /\ result' = 500
                    /\ pc' = "done"
                    /\ idx' = idx
    /\ UNCHANGED <<caller, stored, req_original, req_data, payload,
                   startdate, enddate, effects, queries, moveVars,
                   request_type, handlers>>

\* employee.py:275
create_employee_return ==
    /\ pc = "loop"
    /\ idx > Len(batch)
    /\ result' = 200
    /\ pc' = "done"
    /\ UNCHANGED <<caller, stored, req_original, req_data, payload,
                   startdate, enddate, effects, queries, raised, moveVars,
                   batchVars>>

NextCreate ==
    \/ create_employee
    \/ create_employee_request
    \/ create_employee_return

SpecCreate ==
    InitCreate /\ [][NextCreate]_vars

(* ------------------------------------------------------------------ *)
(* SpecConfig: concurrent set_configuration calls for one unit and one  *)
(* setting, and get_configuration                                       *)
(* (service/configuration_options.py).  Every call has a connection of  *)
(* its own, so the SELECT of one call and the INSERT or UPDATE of       *)
(* another interleave freely.  stored is the rows of orgunit_settings   *)
(* for the pair, in insertion order; pc, req_data and result are per    *)
(* client: the position of its call, the value it sets and the ids its  *)
(* SELECT returned; log is the values written, in commit order; idx     *)
(* counts the calls started; payload is what get_configuration last     *)
(* returned for the setting.                                            *)
(* ------------------------------------------------------------------ *)
NumClients ==
    2

MaxSets ==
    3

Clients ==
    1..NumClients

\* Values of a setting.
ConfigValues ==
    {"True", "False"}

\* configuration_options.py:61-64: the ids of the rows of the pair.
SelectIds(table) ==
    {table[i].id : i \in 1..Len(table)}

\* configuration_options.py:66-68; id is a serial column.
InsertRow(table, value) ==
    Append(table, [id |-> Len(table) + 1, value |-> value])

\* configuration_options.py:70-71
UpdateRow(table, value, id) ==
    [i \in 1..Len(table) |->
        IF table[i].id = id THEN [table[i] EXCEPT !.value = value]
        ELSE table[i]]

\* configuration_options.py:41-43: the rows come in no stated order and a
\* later row of the same setting overwrites an earlier one, so any of the
\* values may be the one returned; Unset stands for a missing key.
GetValues(table) ==
    IF table = <<>> THEN {Unset}
    ELSE {table[i].value : i \in 1..Len(table)}

\* The table holds at most one row for the pair.
InitConfig ==
    /\ pc = [c \in Clients |-> "idle"]
    /\ caller = "none"
    /\ raised = "none"
    /\ startdate = NegInf
    /\ enddate = NegInf
    /\ effects = <<>>
    /\ queries = 0
    /\ result = [c \in Clients |-> {}]
    /\ old_unitid = Org
    /\ new_unitid = Org
    /\ node_uuid = Org
    /\ depth = 0
    /\ reads = <<>>
    /\ idx = 0
    /\ handlers = <<>>
    /\ log = <<>>
    /\ req_original = <<>>
    /\ req_data = [c \in Clients |-> Unset]
    /\ payload = Unset
    /\ NoHierarchy
    /\ NoBatch
    /\ stored \in {<<>>} \cup {<<[id |-> 1, value |-> v]>> : v \in ConfigValues}

\* configuration_options.py:49-58: a client starts a call.
set_configuration(c) ==
    /\ pc[c] = "idle"
    /\ idx < MaxSets
    /\ idx' = idx + 1
    /\ caller' = "set_configuration"
    /\ pc' = [pc EXCEPT ![c] = "select"]
    /\ \E value \in ConfigValues :
          req_data' = [req_data EXCEPT ![c] = value]
    /\ UNCHANGED <<stored, req_original, payload, startdate, enddate, effects,
                   queries, result, raised, moveVars, batch, request_type,
                   handlers, log>>

\* configuration_options.py:61-64
select_rows(c) ==
    /\ pc[c] = "select"
    /\ caller' = "set_configuration"
    /\ pc' = [pc EXCEPT ![c] = "write"]
    /\ result' = [result EXCEPT ![c] = SelectIds(stored)]
    /\ UNCHANGED <<stored, req_original, req_data, payload, startdate,
                   enddate, effects, queries, raised, moveVars, batchVars>>

\* configuration_options.py:65-79: the INSERT or UPDATE and its commit.
write_row(c) ==
    /\ pc[c] = "write"
    /\ caller' = "set_configuration"
    /\ pc' = [pc EXCEPT ![c] = "idle"]
    /\ IF result[c] = {}
       THEN /\ stored' = InsertRow(stored, req_data[c])
            /\ log' = Append(log, req_data[c])
            /\ raised' = raised
       ELSE IF Cardinality(result[c]) = 1
       THEN /\ stored' = UpdateRow(stored, req_data[c],
                                   CHOOSE id \in result[c] : TRUE)
            /\ log' = Append(log, req_data[c])
            /\ raised' = raised
       ELSE /\ raised' = "E_INCONSISTENT_SETTINGS"
            /\ UNCHANGED <<stored, log>>
    /\ UNCHANGED <<req_original, req_data, payload, startdate, enddate,
                   effects, queries, result, moveVars, batch, request_type,
                   idx, handlers>>

\* configuration_options.py:28-46
get_configuration ==
    /\ caller' = "get_configuration"
    /\ payload' \in GetValues(stored)
    /\ UNCHANGED <<pc, stored, req_original, req_data, startdate, enddate,
                   effects, queries, result, raised, moveVars, batchVars>>

NextConfig ==
    \/ \E c \in Clients : set_configuration(c)
    \/ \E c \in Clients : select_rows(c)
    \/ \E c \in Clients : write_row(c)
    \/ get_configuration

SpecConfig ==
    InitConfig /\ [][NextConfig]_vars

(* ------------------------------------------------------------------ *)
(* Properties of _is_date_range_valid (checked under Spec)              *)
(* ------------------------------------------------------------------ *)

Done ==
    pc = "done"

\* The 'active' predicate, stated on the list itself: at least one entry
\* and every entry 'Aktiv'.
AllAktiv(vs) ==
    Len(vs) > 0 /\ \A j \in 1..Len(vs) : vs[j] = "Aktiv"

\* Every effect begins exactly where the one before it ended.
Contiguous(es) ==
    \A i \in 2..Len(es) : es[i].start = es[i - 1].end

EveryEffectActive(es) ==
    \A i \in 1..Len(es) : AllAktiv(es[i].vs)

\* C1: a candidate range with startdate >= enddate is answered False,
\* whatever the scope holds for the parent, and no get_effects query is
\* issued.
C1_EmptyRangeRejectedUnqueried ==
    (Done /\ startdate >= enddate) => (result = FALSE /\ queries = 0)

\* A zero-length range inside an active effect that would otherwise cover it.
C1_Witness ==
    /\ Done
    /\ startdate = enddate
    /\ Len(effects) = 1
    /\ effects[1].start <= startdate
    /\ effects[1].end >= enddate
    /\ AllAktiv(effects[1].vs)
    /\ result = FALSE
    /\ queries = 0

\* C2: when some effect of the reply does not start exactly where the
\* previous one ended, the answer is False.
C2_GapRejected ==
    (Done /\ ~Contiguous(effects)) => result = FALSE

\* Active [t0,t1) and [t1+e,t2) against the range [t0,t2).
C2_Witness ==
    /\ Done
    /\ Len(effects) = 2
    /\ effects[1].start = startdate
    /\ effects[2].end = enddate
    /\ effects[1].end < effects[2].start
    /\ EveryEffectActive(effects)
    /\ queries = 1
    /\ result = FALSE

\* C3: when the first effect of the reply starts strictly later than the
\* candidate start date, the answer is False.
C3_LeftEdgeRejected ==
    (Done /\ Len(effects) > 0 /\ effects[1].start > startdate)
        => result = FALSE

\* Only the left edge is wrong: contiguous, active, right edge covered.
C3_Witness ==
    /\ Done
    /\ startdate < enddate
    /\ Len(effects) > 0
    /\ effects[1].start > startdate
    /\ Contiguous(effects)
    /\ EveryEffectActive(effects)
    /\ effects[Len(effects)].end >= enddate
    /\ queries = 1
    /\ result = FALSE

\* C4: when the last effect of the reply ends strictly earlier than the
\* candidate end date, the answer is False.
C4_RightEdgeRejected ==
    (Done /\ Len(effects) > 0 /\ effects[Len(effects)].end < enddate)
        => result = FALSE

\* Only the right edge is wrong.
C4_Witness ==
    /\ Done
    /\ startdate < enddate
    /\ Len(effects) > 0
    /\ effects[1].start <= startdate
    /\ Contiguous(effects)
    /\ EveryEffectActive(effects)
    /\ effects[Len(effects)].end < enddate
    /\ queries = 1
    /\ result = FALSE

\* C5: when some effect of the reply has an empty gyldighed list or a
\* list with an entry that is not 'Aktiv', the answer is False.
C5_InactiveRejected ==
    (Done /\ \E i \in 1..Len(effects) :
                \/ effects[i].vs = <<>>
                \/ \E j \in 1..Len(effects[i].vs) : effects[i].vs[j] # "Aktiv")
        => result = FALSE

\* Full contiguous coverage, the second effect with an empty list.
C5_Witness ==
    /\ Done
    /\ startdate < enddate
    /\ Len(effects) = 2
    /\ effects[1].start <= startdate
    /\ Contiguous(effects)
    /\ effects[2].end >= enddate
    /\ AllAktiv(effects[1].vs)
    /\ effects[2].vs = <<>>
    /\ queries = 1
    /\ result = FALSE

\* C6 as stated: True only when the effects are all active and their
\* union is exactly the candidate interval.
C6_TrueOnlyIfExactUnion ==
    (Done /\ result = TRUE) =>
        /\ Len(effects) > 0
        /\ Contiguous(effects)
        /\ EveryEffectActive(effects)
        /\ effects[1].start = startdate
        /\ effects[Len(effects)].end = enddate

\* C6 amended: True only when the effects are all active, contiguous, and
\* their union contains the candidate interval; the first effect may start
\* before startdate and the last may end after enddate.
C6_TrueOnlyIfCovered ==
    (Done /\ result = TRUE) =>
        /\ startdate < enddate
        /\ Len(effects) > 0
        /\ Contiguous(effects)
        /\ EveryEffectActive(effects)
        /\ effects[1].start <= startdate
        /\ effects[Len(effects)].end >= enddate

\* Accepted although the effects reach beyond the candidate on both sides.
C6_Witness ==
    /\ Done
    /\ result = TRUE
    /\ Len(effects) = 2
    /\ effects[1].start < startdate
    /\ effects[2].end > enddate

\* C7: for the timeline of the test unit, the range
\* [2017-01-01, 2017-08-29) is accepted and [2017-01-01, 2017-09-01) is
\* refused.
C7_TestTimeline ==
    (/\ Done
     /\ startdate = D20170101
     /\ effects = get_effects(TestTimeline, startdate, enddate))
        => /\ enddate = D20170829 => (result = TRUE /\ raised = "none")
           /\ enddate = D20170901 => (result = FALSE /\ raised # "none")

\* The accepted range, validated for an organisational unit.
C7_Witness ==
    /\ Done
    /\ caller = "org_unit"
    /\ startdate = D20170101
    /\ enddate = D20170829
    /\ effects = get_effects(TestTimeline, startdate, enddate)
    /\ effects # <<>>
    /\ result = TRUE

\* C8: a reply of one active effect whose interval is the candidate
\* interval is accepted, and neither validator raises.
C8_Reflexive ==
    (/\ Done
     /\ Len(effects) = 1
     /\ effects[1].start = startdate
     /\ effects[1].end = enddate
     /\ AllAktiv(effects[1].vs))
        => (result = TRUE /\ raised = "none")

C8_Witness ==
    /\ Done
    /\ caller = "employee"
    /\ Len(effects) = 1
    /\ effects[1].start = startdate
    /\ effects[1].end = enddate
    /\ AllAktiv(effects[1].vs)
    /\ result = TRUE
    /\ raised = "none"

(* ------------------------------------------------------------------ *)
(* Properties of is_candidate_parent_valid (checked under SpecMove)     *)
(* ------------------------------------------------------------------ *)

MoveDone ==
    pc = "done" /\ caller = "move"

\* The units met going up from n for at most k steps, n included.
RECURSIVE Ancestors(_, _)
Ancestors(n, k) ==
    IF n = Org THEN {}
    ELSE IF k = 0 THEN {n}
    ELSE {n} \cup Ancestors(overordnet[n], k - 1)

\* The ancestor chain of n in the store, n included.
AncestorChain(n) ==
    Ancestors(n, NumUnits)

\* C9: whatever the store holds, the call ends with a verdict: the move is
\* accepted, or refused with one of the two validation errors.
C9_WalkEndsWithVerdict ==
    MoveDone => raised \in {"none", "V_ORG_UNIT_MOVE_TO_CHILD",
                            "V_CANNOT_MOVE_ROOT_ORG_UNIT"}

\* C10 as stated: whenever the moved unit is on the ancestor chain of the
\* candidate parent, the move-to-child error is raised.
C10_OnChainMoveToChild ==
    (MoveDone /\ old_unitid \in AncestorChain(new_unitid))
        => raised = "V_ORG_UNIT_MOVE_TO_CHILD"

\* C10 amended: the move is always refused when the moved unit is on the
\* ancestor chain of the candidate parent; the error is move-to-child
\* unless the moved unit is the hierarchy root, which is refused with
\* cannot-move-root before the walk starts.
C10_OnChainRefused ==
    (MoveDone /\ old_unitid \in AncestorChain(new_unitid))
        => raised = (IF overordnet[old_unitid] = Org
                     THEN "V_CANNOT_MOVE_ROOT_ORG_UNIT"
                     ELSE "V_ORG_UNIT_MOVE_TO_CHILD")

\* root -> A -> B, all active, B moved under B.
C10_Witness ==
    /\ MoveDone
    /\ \E r \in Units, a \in Units :
          /\ overordnet[r] = Org
          /\ overordnet[a] = r
          /\ overordnet[old_unitid] = a
          /\ Cardinality({r, a, old_unitid}) = 3
    /\ new_unitid = old_unitid
    /\ \A u \in Units : gyldighed[u] = "Aktiv"
    /\ raised = "V_ORG_UNIT_MOVE_TO_CHILD"

\* The upward chain from n ends at a hierarchy root.
ReachesRoot(n) ==
    \E r \in AncestorChain(n) : overordnet[r] = Org

\* C11: moving the hierarchy root is refused with cannot-move-root for
\* every candidate parent, and nothing but the moved unit itself has been
\* read from the store when it is refused.
C11_RootMoveRefusedFirst ==
    (MoveDone /\ overordnet[old_unitid] = Org)
        => /\ raised = "V_CANNOT_MOVE_ROOT_ORG_UNIT"
           /\ reads = <<old_unitid>>

\* The root moved under another, active, unit.
C11_Witness ==
    /\ MoveDone
    /\ overordnet[old_unitid] = Org
    /\ new_unitid # old_unitid
    /\ overordnet[new_unitid] = old_unitid
    /\ gyldighed[new_unitid] = "Aktiv"
    /\ raised = "V_CANNOT_MOVE_ROOT_ORG_UNIT"

C13_MoveToOwnParentAccepted ==
    (/\ MoveDone
     /\ overordnet[old_unitid] # Org
     /\ new_unitid = overordnet[old_unitid]
     /\ ReachesRoot(new_unitid)
     /\ \A n \in AncestorChain(new_unitid) : gyldighed[n] = "Aktiv")
        => raised = "none"

\* root -> A -> B, B moved under A.
C13_Witness ==
    /\ MoveDone
    /\ overordnet[old_unitid] # Org
    /\ new_unitid = overordnet[old_unitid]
    /\ overordnet[new_unitid] \in Units \ {old_unitid, new_unitid}
    /\ overordnet[overordnet[new_unitid]] = Org
    /\ \A u \in Units : gyldighed[u] = "Aktiv"
    /\ raised = "none"

(* ------------------------------------------------------------------ *)
(* Properties of the handler pipeline (checked under SpecBatch)         *)
(* ------------------------------------------------------------------ *)

\* C14: a write reaches the store only after every request of the batch
\* passed the type check and had its handler constructed; when the type
\* check or a preparation raised, nothing was written.
C14_ValidateBeforeWrite ==
    /\ log # <<>> =>
          /\ \A i \in 1..Len(batch) : batch[i].known /\ batch[i].prepare_ok
          /\ Len(handlers) = Len(batch)
    /\ raised \in {"E_UNKNOWN_ROLE_TYPE", "prepare raised"} => log = <<>>

\* The second request fails its preparation after the first one was
\* prepared; nothing is written.
C14_Witness ==
    /\ pc = "done"
    /\ Len(batch) >= 2
    /\ batch[1].prepare_ok
    /\ ~batch[2].prepare_ok
    /\ handlers = <<1>>
    /\ raised = "prepare raised"
    /\ log = <<>>

(* ------------------------------------------------------------------ *)
(* Properties of the edit (checked under SpecEdit)                      *)
(* ------------------------------------------------------------------ *)

EditCalled ==
    caller \in {"association_edit", "itsystem_edit"} /\ pc # "idle"

\* The validity the caller claims differs from the stored one.
Stale ==
    /\ req_original # <<>>
    /\ \/ req_original[1].from # stored.from
       \/ req_original[1].to # stored.to

\* C15: an edit whose claimed old interval differs from the stored one
\* fails with the stale-edit error and sends no update.
C15_StaleEditRejected ==
    (EditCalled /\ Stale) => (raised = "StaleEditError" /\ log = <<>>)

\* C16: when the new interval starts after the old registration's start,
\* the update carries a fragment over exactly [old.start, new.start) with
\* the old value, beside the new one.
C16_TruncateFromOldStart ==
    (/\ caller = "association_edit"
     /\ pc = "done"
     /\ raised = "none"
     /\ req_data.from > stored.from)
        => /\ Len(log) = 1
           /\ log[1].payload.truncate =
                 <<[from |-> stored.from, to |-> req_data.from,
                    state |-> stored.state]>>
           /\ log[1].payload.insert = <<req_data>>

\* C17: when the new interval does not start after the old registration's
\* start, the update carries no cut-off fragment; every update carries
\* exactly one fragment with the new value over the whole new interval.
C17_NoTruncateOtherwise ==
    (/\ caller = "association_edit"
     /\ pc = "done"
     /\ raised = "none")
        => /\ Len(log) = 1
           /\ req_data.from <= stored.from => log[1].payload.truncate = <<>>
           /\ log[1].payload.insert = <<req_data>>

(* ------------------------------------------------------------------ *)
(* Properties of ITSystems.create (checked under SpecIT)                *)
(* ------------------------------------------------------------------ *)

Points(v) ==
    {t \in Time : v.from <= t /\ t < v.to}

\* The engagement fetched last was a present one and its move went
\* through.
PresentMoved ==
    /\ caller = "move_employee"
    /\ pc # "idle"
    /\ raised = "none"
    /\ idx > 1
    /\ idx - 1 <= req_data.present

\* Period i is the one active period of the function fetched last, and
\* the move date lies in it.
ActiveAtDate(i) ==
    /\ i \in 1..Len(stored.organisationfunktiongyldighed)
    /\ \A j \in 1..Len(stored.organisationfunktiongyldighed) :
          stored.organisationfunktiongyldighed[j].gyldighed = "Aktiv"
             <=> j = i
    /\ stored.organisationfunktiongyldighed[i].from <= req_data.date
    /\ req_data.date < stored.organisationfunktiongyldighed[i].to

\* C18: when a present engagement whose one active period [start, end)
\* holds the move date d has been moved, the update keeps the old function
\* active exactly on [start, d) and the function created is valid exactly
\* on [d, end): the two parts do not overlap and together make [start, end).
C18_MoveKeepsCoverage ==
    PresentMoved =>
        \A i \in 1..Len(stored.organisationfunktiongyldighed) :
            ActiveAtDate(i) =>
                /\ Len(log) >= 2
                /\ log[Len(log) - 1].op = "update"
                /\ log[Len(log) - 1].payload.aktiv =
                      <<[from |-> stored.organisationfunktiongyldighed[i].from,
                         to   |-> req_data.date]>>
                /\ log[Len(log)].op = "create"
                /\ log[Len(log)].payload.virkning =
                      [from |-> req_data.date,
                       to   |-> stored.organisationfunktiongyldighed[i].to]
                /\ Points(log[Len(log) - 1].payload.aktiv[1])
                      \cup Points(log[Len(log)].payload.virkning)
                      = Points(stored.organisationfunktiongyldighed[i])
                /\ Points(log[Len(log) - 1].payload.aktiv[1])
                      \cap Points(log[Len(log)].payload.virkning) = {}

\* A present engagement that became active after an inactive period was
\* moved at a date strictly inside its active period.
C18_Witness ==
    /\ PresentMoved
    /\ Len(stored.organisationfunktiongyldighed) = 2
    /\ ActiveAtDate(2)
    /\ stored.organisationfunktiongyldighed[2].from < req_data.date
    /\ Len(log) = 2

(* ------------------------------------------------------------------ *)
(* Properties of the projection (checked under SpecProject)             *)
(* ------------------------------------------------------------------ *)

\* C20: projecting the effects of a projection again over the same window
\* gives exactly the same sequence of effects.
C20_ProjectionIdempotent ==
    (caller = "project" /\ pc = "done") => result = effects

\* Two overlapping registrations of different state were projected into
\* more than one effect, and projected again.
C20_Witness ==
    /\ caller = "project"
    /\ pc = "done"
    /\ Len(stored) = 2
    /\ stored[1].gyldighed # stored[2].gyldighed
    /\ stored[1].start < stored[2].end
    /\ stored[2].start < stored[1].end
    /\ Len(effects) >= 2
    /\ result = effects

(* ------------------------------------------------------------------ *)
(* Properties of the validation pair (checked under SpecPair)           *)
(* ------------------------------------------------------------------ *)

\* Both validations returned, or one of them raised.
PairFinished ==
    /\ caller = "prepare_create"
    /\ pc = "validating"
    /\ \/ raised # "none"
       \/ \A who \in Validators : result[who] = "returned"

\* What the store says about the range, whatever the order: covered by
\* the unit's timeline and by the employee's.
PairCovered ==
    /\ IsDateRangeValid(get_effects(stored["org_unit"], startdate, enddate),
                        startdate, enddate)
    /\ IsDateRangeValid(get_effects(stored["employee"], startdate, enddate),
                        startdate, enddate)

\* C21: no step of either validation changes the store, and however the
\* steps of the two are ordered the request is accepted exactly when both
\* timelines cover the range.
C21_ValidationsIndependent ==
    [][/\ stored' = stored
       /\ PairFinished' => ((raised' = "none") <=> PairCovered')]_vars

\* Both validations accepted a range, the employee's steps taken around
\* the unit's, on two different timelines.
C21_Witness ==
    /\ PairFinished
    /\ raised = "none"
    /\ stored["org_unit"] # stored["employee"]
    /\ log = << <<"employee", "get_effects">>, <<"org_unit", "get_effects">>,
                <<"org_unit", "return">>, <<"employee", "return">> >>

(* ------------------------------------------------------------------ *)
(* Properties of publish_message (checked under SpecAmqp)               *)
(* ------------------------------------------------------------------ *)

\* C22: publish_message returns without an error and without publishing
\* when no connection is registered; with a connection it raises
\* ValueError for a topic that is not allowed, publishing nothing, and
\* for an allowed topic it returns without raising, whether the publish
\* went through or not.
C22_PublishNeverFailsRequest ==
    (caller = "publish_message" /\ pc = "done")
        => /\ stored = {} => (raised = "none" /\ log = <<>>)
           /\ (/\ stored # {}
               /\ ~(/\ req_data.service \in _SERVICES
                    /\ req_data.object_type \in _OBJECT_TYPES
                    /\ req_data.action \in _ACTIONS))
                 => (raised = "ValueError" /\ log = <<>>)
           /\ (/\ stored # {}
               /\ req_data.service \in _SERVICES
               /\ req_data.object_type \in _OBJECT_TYPES
               /\ req_data.action \in _ACTIONS)
                 => raised = "none"

(* ------------------------------------------------------------------ *)
(* Properties of _get_org_unit_endpoint_date (checked under             *)
(* SpecEndpoint)                                                        *)
(* ------------------------------------------------------------------ *)

\* Period i is the first 'Aktiv' one of the unit in stored order.
FirstActive(i) ==
    /\ i \in 1..Len(stored)
    /\ stored[i].gyldighed = "Aktiv"
    /\ \A j \in 1..(i - 1) : stored[j].gyldighed # "Aktiv"

\* C23: the date returned is the 'to' boundary (enddate true) or the
\* 'from' boundary (enddate false) of the first 'Aktiv' period in stored
\* order, whatever its from_included / to_included flags; a unit without
\* an active period makes the function raise.
C23_EndpointOfFirstActive ==
    (caller = "_get_org_unit_endpoint_date" /\ pc = "done")
        => /\ \A i \in 1..Len(stored) :
                 FirstActive(i) =>
                    /\ raised = "none"
                    /\ req_data.enddate =>
                          to_lora_time(result) = stored[i].virkning.to
                    /\ ~req_data.enddate =>
                          to_lora_time(result) = stored[i].virkning.from
           /\ (\A i \in 1..Len(stored) : stored[i].gyldighed # "Aktiv")
                 => raised # "none"

\* The start date was asked of a unit whose first active period comes
\* second in the list and has from_included false.
C23_Witness ==
    /\ caller = "_get_org_unit_endpoint_date"
    /\ pc = "done"
    /\ ~req_data.enddate
    /\ Len(stored) = 2
    /\ FirstActive(2)
    /\ ~stored[2].virkning.from_included
    /\ stored[2].virkning.to_included
    /\ result = D20170101

(* ------------------------------------------------------------------ *)
(* Properties of the inactivation of a unit (checked under              *)
(* SpecInactivate)                                                      *)
(* ------------------------------------------------------------------ *)

\* Some period of the list is 'Aktiv'.
HasActive(gs) ==
    \E i \in 1..Len(gs) : gs[i].gyldighed = "Aktiv"

\* The virkning of the first 'Aktiv' period of a list that has one.
ActiveVirkning(gs) ==
    gs[CHOOSE i \in 1..Len(gs) :
          /\ gs[i].gyldighed = "Aktiv"
          /\ \A j \in 1..(i - 1) : gs[j].gyldighed # "Aktiv"].virkning

\* The candidate end date of the request.
Candidate ==
    parsedatetime(req_data.end_date)

\* C24: when is_inactivation_date_valid returns, it returns True exactly
\* when the candidate is strictly after the unit's active start and not
\* before the active end of any child; in particular False for a candidate
\* equal to the unit's start.
C24_InactivationDateRule ==
    (/\ caller = "is_inactivation_date_valid"
     /\ pc = "done"
     /\ raised = "none")
        => /\ result \in {"True", "False"}
           /\ result = "True" <=>
                 /\ Candidate > parsedatetime(ActiveVirkning(stored.unit).from)
                 /\ \A k \in 1..Len(stored.children) :
                       /\ HasActive(stored.children[k])
                       /\ Candidate >= parsedatetime(
                             ActiveVirkning(stored.children[k]).to)
           /\ Candidate = parsedatetime(ActiveVirkning(stored.unit).from)
                 => result = "False"

\* A candidate equal to the end of one child and after the end of the
\* other was accepted.
C24_Witness ==
    /\ caller = "is_inactivation_date_valid"
    /\ pc = "done"
    /\ result = "True"
    /\ Len(stored.children) = 2
    /\ HasActive(stored.children[1])
    /\ HasActive(stored.children[2])
    /\ Candidate > parsedatetime(ActiveVirkning(stored.children[1]).to)
    /\ Candidate = parsedatetime(ActiveVirkning(stored.children[2]).to)

\* C29: an invalid inactivation date is answered 400 without an update;
\* a unit that does not have exactly one active period gets no update;
\* a completed request has issued exactly two updates, first the one that
\* empties the validity states, then one that fills them again.
C29_TwoUpdatesInOrder ==
    (caller = "inactivate_org_unit" /\ pc = "done")
        => /\ (/\ HasActive(stored.unit)
               /\ \/ Candidate
                       <= parsedatetime(ActiveVirkning(stored.unit).from)
                  \/ \E k \in 1..Len(stored.children) :
                        /\ \A j \in 1..k : HasActive(stored.children[j])
                        /\ Candidate < parsedatetime(
                              ActiveVirkning(stored.children[k]).to))
                 => (result = 400 /\ log = <<>>)
           /\ Cardinality({i \in 1..Len(stored.unit) :
                              stored.unit[i].gyldighed = "Aktiv"}) # 1 => log = <<>>
           /\ result = 200 =>
                 /\ Len(log) = 2
                 /\ log[1].op = "update"
                 /\ log[1].payload.organisationenhedgyldighed = <<>>
                 /\ log[2].op = "update"
                 /\ log[2].payload.organisationenhedgyldighed # <<>>

(* ------------------------------------------------------------------ *)
(* Properties of submit (checked under SpecSubmit)                      *)
(* ------------------------------------------------------------------ *)

\* The messages a finished submit has published, in order.
ExpectedMessages ==
    (IF stored.employee_uuid # None THEN <<"employee">> ELSE <<>>)
    \o (IF stored.org_unit_uuid # None THEN <<"organisation">> ELSE <<>>)

\* C25: whatever has been done so far starts with the store write, a
\* create for CREATE and an update for EDIT and TERMINATE, and only
\* messages follow it; a finished submit has published the employee
\* message iff employee_uuid is set, then the organisation message iff
\* org_unit_uuid is set; a write that raised is followed by no message.
C25_WriteBeforePublish ==
    caller = "submit"
        => /\ log # <<>> =>
                 /\ log[1].op = IF request_type = "CREATE"
                                THEN "create" ELSE "update"
                 /\ \A i \in 2..Len(log) : log[i].op = "publish"
           /\ raised # "none" => log = <<>>
           /\ (pc = "done" /\ raised = "none") =>
                 /\ Len(log) = 1 + Len(ExpectedMessages)
                 /\ \A i \in 1..Len(ExpectedMessages) :
                       log[i + 1].service = ExpectedMessages[i]

\* A TERMINATE request of a handler with only the unit set was written
\* and one message went out.
C25_Witness ==
    /\ caller = "submit"
    /\ pc = "done"
    /\ raised = "none"
    /\ request_type = "TERMINATE"
    /\ stored.employee_uuid = None
    /\ stored.org_unit_uuid # None
    /\ Len(log) = 2
    /\ log[2].service = "organisation"

(* ------------------------------------------------------------------ *)
(* The empty reply (checked under Spec)                                 *)
(* ------------------------------------------------------------------ *)

\* C26: when get_effects returns no effect at all for the parent, the
\* answer is False.
C26_NoEffectsRejected ==
    (Done /\ caller \in {"org_unit", "employee"} /\ effects = <<>>)
        => (result = FALSE /\ raised # "none")

\* A proper range was asked of a parent for which the scope holds nothing.
C26_Witness ==
    /\ Done
    /\ caller = "employee"
    /\ startdate < enddate
    /\ queries = 1
    /\ effects = <<>>
    /\ result = FALSE

(* ------------------------------------------------------------------ *)
(* Properties of the registries (checked under SpecRegistry)            *)
(* ------------------------------------------------------------------ *)

\* Every OrgFunk class bound to a role is bound to its function_key too,
\* with FUNCTION_KEYS of the role equal to that key, and no abstract class
\* is bound.
RegistriesConsistent ==
    \A r \in RoleTypes :
        stored.HANDLERS_BY_ROLE_TYPE[r] # None =>
            LET cls == handlers[stored.HANDLERS_BY_ROLE_TYPE[r]]
            IN  /\ ~cls.abstract
                /\ cls.orgfunk =>
                      /\ cls.function_key # Unset
                      /\ stored.HANDLERS_BY_FUNCTION_KEY[cls.function_key]
                            = stored.HANDLERS_BY_ROLE_TYPE[r]
                      /\ stored.FUNCTION_KEYS[r] = cls.function_key

\* C27: after every class definition, one whose registration fails an
\* assertion included, the registries are consistent, and a role_type or
\* function_key that was bound stays bound to the same class.
C27_RegistriesConsistent ==
    [][/\ RegistriesConsistent'
       /\ \A r \in RoleTypes :
             stored.HANDLERS_BY_ROLE_TYPE[r] # None =>
                stored'.HANDLERS_BY_ROLE_TYPE[r]
                   = stored.HANDLERS_BY_ROLE_TYPE[r]
       /\ \A k \in FunctionKeyValues :
             stored.HANDLERS_BY_FUNCTION_KEY[k] # None =>
                stored'.HANDLERS_BY_FUNCTION_KEY[k]
                   = stored.HANDLERS_BY_FUNCTION_KEY[k]]_vars

(* ------------------------------------------------------------------ *)
(* Properties of create_employee (checked under SpecCreate)             *)
(* ------------------------------------------------------------------ *)

\* The position of the first request without a known role type, or one
\* past the end of the list.
FirstUnknown ==
    CHOOSE i \in 1..(Len(req_original) + 1) :
        /\ i <= Len(req_original) =>
              req_original[i].type \notin CreateHandlers
        /\ \A j \in 1..(i - 1) : req_original[j].type \in CreateHandlers

\* C28: the k-th handler invocation is for the k-th request of the list,
\* with the handler of its type and a non-empty valid_to ('infinity' when
\* the request had none); no handler is invoked for the first request of
\* unknown type or any later one; the response is 400 only at that
\* request, with the invocations for all earlier requests made and kept,
\* and 200 only after a handler was invoked for every request.
C28_BatchInOrder ==
    caller = "create_employee" =>
        /\ Len(log) < FirstUnknown
        /\ \A k \in 1..Len(log) :
              /\ log[k].handler = req_original[k].type
              /\ log[k].req.type = req_original[k].type
              /\ log[k].req.valid_to \notin {Unset, ""}
              /\ log[k].req.valid_to =
                    IF req_original[k].valid_to \in {Unset, ""}
                    THEN "infinity" ELSE req_original[k].valid_to
        /\ (pc = "done" /\ raised = "none") =>
              /\ Len(log) = FirstUnknown - 1
              /\ result = IF FirstUnknown <= Len(req_original)
                          THEN 400 ELSE 200

\* A batch answered 400 at its third request, after two handlers ran, one
\* of them on a request whose empty valid_to was defaulted.
C28_Witness ==
    /\ caller = "create_employee"
    /\ pc = "done"
    /\ result = 400
    /\ Len(req_original) = 3
    /\ Len(log) = 2
    /\ req_original[1].valid_to = ""
    /\ log[1].req.valid_to = "infinity"

(* ------------------------------------------------------------------ *)
(* Properties of set_configuration (checked under SpecConfig)           *)
(* ------------------------------------------------------------------ *)

\* C30: whatever the interleaving of the calls, the table holds at most
\* one row for the pair, and a get_configuration made when no call is in
\* flight returns the value written last.
C30_OneRowPerSetting ==
    /\ Len(stored) <= 1
    /\ (/\ caller = "get_configuration"
        /\ \A c \in Clients : pc[c] = "idle"
        /\ log # <<>>)
          => payload = log[Len(log)]

====
